---- MODULE Spec2Model ----
(***************************************************************************)
(* Model of hotel_staff_notification.py: the ticket log kept in            *)
(* hotel_notifications.json and the operations notify_staff,               *)
(* get_pending_notifications, get_staff_status and                         *)
(* mark_notification_resolved.                                             *)
(*                                                                         *)
(* A notification is a Python dict; it is modelled as a function from key  *)
(* names to values, so that the key "resolved_at" is absent from a pending *)
(* notification exactly as it is absent from the dict.                     *)
(*                                                                         *)
(* Time is counted in ticks, TicksPerSecond ticks to a second.             *)
(* datetime.now().isoformat() keeps the sub-second part of the instant,    *)
(* strftime('%Y%m%d%H%M%S') drops it.                                      *)
(***************************************************************************)
EXTENDS Integers, Sequences, FiniteSets, TLC

(* ---------------------------- bounds ----------------------------------- *)

\* The retention limit of save_notification. The source keeps 1000
\* notifications; the model keeps RetentionLimit so that eviction happens
\* after a few filings.
RetentionLimit == 2

\* Ticks in one second: two calls can fall into the same second at
\* different instants.
TicksPerSecond == 2

\* Last instant of the modelled clock.
MaxClock == 2

\* Filings in one behaviour: one more than the log keeps, so that the oldest
\* notification is evicted.
MaxFiled == RetentionLimit + 1

\* Longest log drawn for the status query.
MaxStatusLen == 7

(* ------------------------ program constants ---------------------------- *)

\* pending[-5:] in get_staff_status
RecentLimit == 5

(* ---------------------------- inputs ----------------------------------- *)

Reasons == {"Check-in"}
Languages == {"Korean"}
Priorities == {"normal", "urgent", "URGENT"}
Locations == {"Front Desk Kiosk"}
Infos == {""}

Instants == 0..MaxClock

VARIABLES
    log_file,      \* NOTIFICATION_LOG_FILE: [kind, content]
    clock,         \* the instant of the latest call
    call,          \* the latest call: operation and arguments
    ret,           \* what the latest call returned
    filed,         \* history: every notification built by notify_staff, in order
    resolveCalled, \* history: mark_notification_resolved was called
    proc,          \* calls run statement by statement: where each one is
    sound_enabled  \* NOTIFICATION_SOUND_ENABLED

vars == <<log_file, clock, call, ret, filed, resolveCalled, proc, sound_enabled>>

\* what the calls run as a whole leave alone
stepvars == <<proc, sound_enabled>>

\* what the calls run statement by statement leave alone
callvars == <<call, ret, filed, resolveCalled>>

\* NOTIFICATION_SOUND_ENABLED = True
NOTIFICATION_SOUND_ENABLED == TRUE

\* the invocations that can be under way at once
Procs == {1, 2}

\* a call not yet made
IdleProc ==
    [pc           |-> "idle",
     op           |-> "none",
     priority     |-> "",
     notification |-> <<>>,
     number       |-> <<>>,
     before       |-> <<>>,
     local        |-> <<>>,
     opens        |-> 0,
     alert        |-> "none",
     beeps        |-> 0,
     error        |-> "none",
     ret          |-> [returned |-> FALSE]]

(* ---------------------------- helpers ---------------------------------- *)

Min(a, b) == IF a < b THEN a ELSE b

Last(s) == s[Len(s)]

\* s[-n:] of Python, for n > 0
LastN(s, n) == IF Len(s) <= n THEN s ELSE SubSeq(s, Len(s) - n + 1, Len(s))

\* s[:n] of Python
FirstN(s, n) == IF Len(s) <= n THEN s ELSE SubSeq(s, 1, n)

RECURSIVE SelectPending(_)
\* [n for n in notifications if n.get("status") == "pending"]
SelectPending(s) ==
    IF s = <<>> THEN <<>>
    ELSE IF Head(s)["status"] = "pending"
         THEN <<Head(s)>> \o SelectPending(Tail(s))
         ELSE SelectPending(Tail(s))

(* ----------------------------- time ------------------------------------ *)

\* datetime.now().isoformat(): the second and the fraction of the second
get_timestamp(t) == <<t \div TicksPerSecond, t % TicksPerSecond>>

\* f"TKT-{datetime.now().strftime('%Y%m%d%H%M%S')}": the second only
TicketNumber(t) == <<"TKT", t \div TicksPerSecond>>

(* --------------------------- the store --------------------------------- *)

\* A JSON string token: the text between the quotes.
JsonString(v) == <<"string", v>>

\* members with an empty value left out of the written object
json_dump_obj_SkipEmpty(d) ==
    [k \in {x \in DOMAIN d : d[x] # ""} |-> JsonString(d[k])]

\* json.dump of one dict: an object with a member for every key, every value
\* written as a string token
json_dump_obj(d) == [k \in DOMAIN d |-> JsonString(d[k])]

\* json.load of one object: a dict of its members, the tokens read back
json_load_obj(members) == [k \in DOMAIN members |-> members[k][2]]

\* json.dump(notifications, f, ensure_ascii=False, indent=2)
json_dump(notifications) ==
    [i \in DOMAIN notifications |-> json_dump_obj(notifications[i])]

\* json.load(f) of a text that json.dump wrote
json_load(text) == [i \in DOMAIN text |-> json_load_obj(text[i])]

\* What the file can be:
\*   absent       NOTIFICATION_LOG_FILE.exists() is false
\*   valid        the text of a JSON list of objects, kept in content
\*   unreadable   open or read fails with an IOError
\*   malformed    text that is not JSON (empty, cut short)
\*   wrong_shape  JSON that is not a list: the object {"tickets": []}
\*   undecodable  bytes that are not UTF-8
FaultKinds == {"unreadable", "malformed", "wrong_shape", "undecodable"}

\* The file is absent until the first write; a write leaves a JSON list.
AbsentFile == [kind |-> "absent", content |-> <<>>]
ValidFile(notifications) == [kind |-> "valid", content |-> json_dump(notifications)]
FaultyFile(kind) == [kind |-> kind, content |-> <<>>]

\* the UnicodeDecodeError of the read is neither a JSONDecodeError nor an IOError
load_raises(f) == f.kind = "undecodable"

\* the value load_notifications returns when it returns
load_notifications(f) ==
    IF f.kind # "absent"
    THEN IF f.kind = "valid" THEN json_load(f.content)
         ELSE IF f.kind = "wrong_shape" THEN [tickets |-> <<>>]
         ELSE <<>>
    ELSE <<>>

\* the loaded value is a list of dicts: append, iteration and n.get work on it
LoadsList(f) == ~load_raises(f) /\ f.kind # "wrong_shape"

\* notifications[:1000] in place of notifications[-1000:]
Truncate_KeepOldest(notifications) ==
    IF Len(notifications) > RetentionLimit
    THEN FirstN(notifications, RetentionLimit)
    ELSE notifications

Truncate(notifications) ==
    IF Len(notifications) > RetentionLimit
    THEN LastN(notifications, RetentionLimit)
    ELSE notifications

save_notification(f, notification) ==
    ValidFile(Truncate(Append(load_notifications(f), notification)))

(* -------------------------- the service -------------------------------- *)

NewNotification(t1, t2, reason, guest_language, priority, location, additional_info) ==
    [ticket_number   |-> TicketNumber(t1),
     timestamp       |-> get_timestamp(t2),
     reason          |-> reason,
     guest_language  |-> guest_language,
     priority        |-> priority,
     location        |-> location,
     additional_info |-> additional_info,
     status          |-> "pending"]

\* the comparison made case-insensitive
EstimatedResponseTime_AnyCase(priority) ==
    IF priority \notin {"urgent", "URGENT"} THEN "2-3 minutes" ELSE "1 minute"

EstimatedResponseTime(priority) ==
    IF priority # "urgent" THEN "2-3 minutes" ELSE "1 minute"

\* t1 is the instant line 103 reads, t2 the instant get_timestamp reads.
notify_staff(reason, guest_language, priority, location, additional_info) ==
    /\ Len(filed) < MaxFiled
    /\ LoadsList(log_file)
    /\ \E t1 \in clock..MaxClock :
       \E t2 \in t1..Min(t1 + 1, MaxClock) :
         LET notification == NewNotification(t1, t2, reason, guest_language,
                                             priority, location, additional_info)
         IN /\ log_file' = save_notification(log_file, notification)
            /\ clock' = t2
            /\ filed' = Append(filed, notification)
            /\ call' = [op              |-> "notify_staff",
                        reason          |-> reason,
                        guest_language  |-> guest_language,
                        priority        |-> priority,
                        location        |-> location,
                        additional_info |-> additional_info]
            /\ ret' = [success                 |-> TRUE,
                       ticket_number           |-> notification.ticket_number,
                       message                 |-> <<"Staff has been notified. Ticket number:",
                                                     notification.ticket_number>>,
                       estimated_response_time |-> EstimatedResponseTime(priority)]
    /\ UNCHANGED <<resolveCalled, stepvars>>

\* the error that ends a call when the loaded value is not a list of dicts:
\* the read itself fails, or append / n.get is missing on what was loaded
LoadError(f) ==
    IF load_raises(f) THEN "UnicodeDecodeError" ELSE "AttributeError"

\* save_notification fails at line 51 or 52, before the file is opened for
\* writing; nothing after line 117 runs
notify_staff_raises(reason, guest_language, priority, location, additional_info) ==
    /\ ~LoadsList(log_file)
    /\ call' = [op              |-> "notify_staff",
                reason          |-> reason,
                guest_language  |-> guest_language,
                priority        |-> priority,
                location        |-> location,
                additional_info |-> additional_info]
    /\ ret' = [raised |-> LoadError(log_file)]
    /\ UNCHANGED <<log_file, clock, filed, resolveCalled, stepvars>>

\* pending notifications collected per ticket number, one for each number
get_pending_notifications_ByNumber(f) ==
    LET pending == SelectPending(load_notifications(f))
        Firsts == {i \in DOMAIN pending :
                     \A j \in 1..(i - 1) :
                        pending[j]["ticket_number"] # pending[i]["ticket_number"]}
    IN SelectPending([i \in DOMAIN pending |->
                        IF i \in Firsts THEN pending[i]
                        ELSE [pending[i] EXCEPT !["status"] = "duplicate"]])

get_pending_notifications(f) == SelectPending(load_notifications(f))

TicketNumbers(s) == [i \in DOMAIN s |-> s[i]["ticket_number"]]

\* pending[:5] in place of pending[-5:]
StaffStatus_Oldest(f) ==
    LET pending == get_pending_notifications(f)
    IN [pending_count   |-> Len(pending),
        pending_tickets |-> TicketNumbers(FirstN(pending, RecentLimit))]

StaffStatus(f) ==
    LET pending == get_pending_notifications(f)
    IN [pending_count   |-> Len(pending),
        pending_tickets |-> TicketNumbers(LastN(pending, RecentLimit))]

\* the file written back after the read
get_staff_status_Touch ==
    /\ LoadsList(log_file)
    /\ call' = [op |-> "get_staff_status"]
    /\ ret' = StaffStatus(log_file)
    /\ log_file' = ValidFile(load_notifications(log_file))
    /\ UNCHANGED <<clock, filed, resolveCalled, stepvars>>

get_staff_status ==
    /\ LoadsList(log_file)
    /\ call' = [op |-> "get_staff_status"]
    /\ ret' = StaffStatus(log_file)
    /\ UNCHANGED <<log_file, clock, filed, resolveCalled, stepvars>>

\* line 145 or line 146 fails
get_staff_status_raises ==
    /\ ~LoadsList(log_file)
    /\ call' = [op |-> "get_staff_status"]
    /\ ret' = [raised |-> LoadError(log_file)]
    /\ UNCHANGED <<log_file, clock, filed, resolveCalled, stepvars>>

Matches(notifications, ticket_number) ==
    {i \in DOMAIN notifications : notifications[i]["ticket_number"] = ticket_number}

\* the log searched from its end
FirstMatch_Last(notifications, ticket_number) ==
    CHOOSE i \in Matches(notifications, ticket_number) :
        \A j \in Matches(notifications, ticket_number) : i >= j

\* the notification the for loop stops at
FirstMatch(notifications, ticket_number) ==
    CHOOSE i \in Matches(notifications, ticket_number) :
        \A j \in Matches(notifications, ticket_number) : i <= j

\* the status toggled instead of set
MarkResolved_Toggle(notification, now) ==
    [k \in DOMAIN notification \cup {"resolved_at"} |->
        IF k = "status"
        THEN (IF notification["status"] = "resolved" THEN "pending" ELSE "resolved")
        ELSE IF k = "resolved_at" THEN get_timestamp(now)
        ELSE notification[k]]

\* the status set, resolved_at forgotten
MarkResolved_NoStamp(notification, now) ==
    [notification EXCEPT !["status"] = "resolved"]

\* notification["status"] = "resolved"; notification["resolved_at"] = get_timestamp()
MarkResolved(notification, now) ==
    [k \in DOMAIN notification \cup {"resolved_at"} |->
        IF k = "status" THEN "resolved"
        ELSE IF k = "resolved_at" THEN get_timestamp(now)
        ELSE notification[k]]

ResolveFound(ticket_number) ==
    LET notifications == load_notifications(log_file)
        i == FirstMatch(notifications, ticket_number)
    IN /\ Matches(notifications, ticket_number) # {}
       /\ \E now \in clock..MaxClock :
            /\ log_file' = ValidFile([notifications EXCEPT
                                        ![i] = MarkResolved(notifications[i], now)])
            /\ clock' = now
       /\ ret' = [success |-> TRUE,
                  message |-> <<"Ticket", ticket_number, "marked as resolved">>]

\* the rewrite moved out of the loop: the file is written on every call
ResolveNotFound_Rewrite(ticket_number) ==
    /\ Matches(load_notifications(log_file), ticket_number) = {}
    /\ ret' = [success |-> FALSE,
               message |-> <<"Ticket", ticket_number, "not found">>]
    /\ log_file' = ValidFile(load_notifications(log_file))
    /\ UNCHANGED clock

ResolveNotFound(ticket_number) ==
    /\ Matches(load_notifications(log_file), ticket_number) = {}
    /\ ret' = [success |-> FALSE,
               message |-> <<"Ticket", ticket_number, "not found">>]
    /\ UNCHANGED <<log_file, clock>>

mark_notification_resolved(ticket_number) ==
    /\ LoadsList(log_file)
    /\ call' = [op |-> "mark_notification_resolved", ticket_number |-> ticket_number]
    /\ resolveCalled' = TRUE
    /\ UNCHANGED <<filed, stepvars>>
    /\ \/ ResolveFound(ticket_number)
       \/ ResolveNotFound(ticket_number)

\* line 151 or line 154 fails
mark_notification_resolved_raises(ticket_number) ==
    /\ ~LoadsList(log_file)
    /\ call' = [op |-> "mark_notification_resolved", ticket_number |-> ticket_number]
    /\ ret' = [raised |-> LoadError(log_file)]
    /\ resolveCalled' = TRUE
    /\ UNCHANGED <<log_file, clock, filed, stepvars>>

(* ------------------------- specification ------------------------------- *)

\* every ticket number a caller can hold, and one no filing produces
TicketNumberArgs == {TicketNumber(t) : t \in Instants} \cup {<<"TKT", -1>>}

Init ==
    /\ log_file = AbsentFile
    /\ clock = 0
    /\ call = [op |-> "none"]
    /\ ret = [success |-> TRUE]
    /\ filed = <<>>
    /\ resolveCalled = FALSE
    /\ proc = [p \in Procs |-> IdleProc]
    /\ sound_enabled = NOTIFICATION_SOUND_ENABLED

FileTicket ==
    \E reason \in Reasons, guest_language \in Languages, priority \in Priorities,
       location \in Locations, additional_info \in Infos :
        notify_staff(reason, guest_language, priority, location, additional_info)

ResolveTicket == \E ticket_number \in TicketNumberArgs : mark_notification_resolved(ticket_number)

ListPending == get_staff_status

Next == FileTicket \/ ResolveTicket \/ ListPending

Spec == Init /\ [][Next]_vars

(* ------------------ calls on a file that gets damaged ------------------ *)

\* Something outside the program removes or damages the file between two
\* calls; no call is outstanding afterwards.
DamageFile ==
    /\ \E kind \in FaultKinds \cup {"absent"} :
          /\ log_file.kind # kind
          /\ log_file' = IF kind = "absent" THEN AbsentFile ELSE FaultyFile(kind)
    /\ call' = [op |-> "none"]
    /\ ret' = [success |-> TRUE]
    /\ UNCHANGED <<clock, filed, resolveCalled, stepvars>>

FileTicketOnFaults ==
    \E reason \in Reasons, guest_language \in Languages, location \in Locations,
       additional_info \in Infos :
        \/ notify_staff(reason, guest_language, "normal", location, additional_info)
        \/ notify_staff_raises(reason, guest_language, "normal", location, additional_info)

ResolveTicketOnFaults ==
    \E ticket_number \in TicketNumberArgs :
        \/ mark_notification_resolved(ticket_number)
        \/ mark_notification_resolved_raises(ticket_number)

ListPendingOnFaults == get_staff_status \/ get_staff_status_raises

NextFaults ==
    FileTicketOnFaults \/ ResolveTicketOnFaults \/ ListPendingOnFaults \/ DamageFile

SpecFaults == Init /\ [][NextFaults]_vars

(* ---------------- the status query on a drawn log ---------------------- *)

\* A log as earlier calls leave it: notification i was filed at instant
\* (i - 1) * pace, so pace = 1 puts two filings into each second and pace =
\* TicksPerSecond one; those of resolvedSet were resolved afterwards.
DrawnLog(len, pace, resolvedSet) ==
    [i \in 1..len |->
        LET n == NewNotification((i - 1) * pace, (i - 1) * pace, "Check-in", "Korean",
                                 "normal", "Front Desk Kiosk", "")
        IN IF i \in resolvedSet THEN MarkResolved(n, len * pace) ELSE n]

\* mark_notification_resolved reaches only the first notification of a
\* ticket number
Resolvable(log, resolvedSet) ==
    \A j \in resolvedSet : \A i \in 1..(j - 1) :
        log[i]["ticket_number"] # log[j]["ticket_number"]

InitStatus ==
    \E len \in 0..MaxStatusLen, pace \in 1..TicksPerSecond :
    \E resolvedSet \in SUBSET (1..len) :
        /\ Resolvable(DrawnLog(len, pace, {}), resolvedSet)
        /\ log_file = IF len = 0 THEN AbsentFile
                      ELSE ValidFile(DrawnLog(len, pace, resolvedSet))
        /\ filed = DrawnLog(len, pace, {})
        /\ resolveCalled = (resolvedSet # {})
        /\ clock = len * pace
        /\ call = [op |-> "none"]
        /\ ret = [success |-> TRUE]
        /\ proc = [p \in Procs |-> IdleProc]
        /\ sound_enabled = NOTIFICATION_SOUND_ENABLED

NextStatus == get_staff_status

SpecStatus == InitStatus /\ [][NextStatus]_vars

(* --------------- calls run statement by statement ---------------------- *)

\* Each invocation is a call of its own on the shared file; its steps are the
\* statements that touch the file (the read, the open for writing, the dump)
\* and the alert. What lies between two of them is local to the invocation.

SetProc(p, rec) == proc' = [proc EXCEPT ![p] = rec]

\* the platform the alert meets: no winsound module, a Beep that fails, or
\* sound that plays
Platforms == {"no_winsound", "beep_fails", "plays"}

\* RuntimeError caught no more: only the ImportError is
play_notification_sound_ImportOnly(enabled, platform, priority) ==
    IF ~enabled
    THEN [outcome |-> "disabled", beeps |-> 0, raised |-> FALSE]
    ELSE IF platform = "no_winsound"
    THEN [outcome |-> "import_error", beeps |-> 0, raised |-> FALSE]
    ELSE IF platform = "beep_fails"
    THEN [outcome |-> "runtime_error", beeps |-> 0, raised |-> TRUE]
    ELSE [outcome |-> "played",
          beeps   |-> IF priority = "urgent" THEN 6 ELSE 1,
          raised  |-> FALSE]

\* play_notification_sound: what it did and whether an error leaves it
play_notification_sound(enabled, platform, priority) ==
    IF ~enabled
    THEN [outcome |-> "disabled", beeps |-> 0, raised |-> FALSE]
    ELSE IF platform = "no_winsound"
    THEN [outcome |-> "import_error", beeps |-> 0, raised |-> FALSE]
    ELSE IF platform = "beep_fails"
    THEN [outcome |-> "runtime_error", beeps |-> 0, raised |-> FALSE]
    ELSE [outcome |-> "played",
          beeps   |-> IF priority = "urgent" THEN 6 ELSE 1,
          raised  |-> FALSE]

\* lines 103-114 and lines 51-56: the notification is built, the file read,
\* the notification appended and the list cut to the limit
notify_staff_load(p, reason, guest_language, priority, location, additional_info) ==
    /\ proc[p].pc = "idle"
    /\ \E t1 \in clock..MaxClock :
       \E t2 \in t1..Min(t1 + 1, MaxClock) :
         LET notification == NewNotification(t1, t2, reason, guest_language,
                                             priority, location, additional_info)
             started == [proc[p] EXCEPT !.op = "notify_staff",
                                        !.priority = priority,
                                        !.notification = notification]
         IN /\ clock' = t2
            /\ IF LoadsList(log_file)
               THEN SetProc(p, [started EXCEPT
                        !.pc = "loaded",
                        !.before = load_notifications(log_file),
                        !.local = Truncate(Append(load_notifications(log_file),
                                                  notification))])
               ELSE SetProc(p, [started EXCEPT
                        !.pc = "raised",
                        !.error = LoadError(log_file)])
    /\ UNCHANGED <<log_file, sound_enabled, callvars>>

\* lines 151-156: the file read, the first match marked in the loaded list;
\* line 163 when nothing matches
mark_notification_resolved_load(p, ticket_number) ==
    /\ proc[p].pc = "idle"
    /\ LET started == [proc[p] EXCEPT !.op = "mark_notification_resolved",
                                      !.number = ticket_number]
           notifications == load_notifications(log_file)
       IN IF ~LoadsList(log_file)
          THEN /\ SetProc(p, [started EXCEPT !.pc = "raised",
                                             !.error = LoadError(log_file)])
               /\ UNCHANGED clock
          ELSE IF Matches(notifications, ticket_number) = {}
          THEN /\ SetProc(p, [started EXCEPT
                      !.pc = "done",
                      !.before = notifications,
                      !.ret = [success |-> FALSE,
                               message |-> <<"Ticket", ticket_number, "not found">>]])
               /\ UNCHANGED clock
          ELSE \E now \in clock..MaxClock :
                 LET i == FirstMatch(notifications, ticket_number)
                 IN /\ SetProc(p, [started EXCEPT
                           !.pc = "loaded",
                           !.before = notifications,
                           !.local = [notifications EXCEPT
                                        ![i] = MarkResolved(notifications[i], now)]])
                    /\ clock' = now
    /\ UNCHANGED <<log_file, sound_enabled, callvars>>

\* open(NOTIFICATION_LOG_FILE, "w"): the file is there and empty
write_open(p) ==
    /\ proc[p].pc = "loaded"
    /\ log_file' = FaultyFile("malformed")
    /\ SetProc(p, [proc[p] EXCEPT !.pc = "opened", !.opens = @ + 1])
    /\ UNCHANGED <<clock, sound_enabled, callvars>>

\* what ends a call whose write has gone through: notify_staff goes on to
\* the alert, mark_notification_resolved returns at line 161
AfterWrite(p) ==
    IF proc[p].op = "notify_staff"
    THEN [proc[p] EXCEPT !.pc = "saved"]
    ELSE [proc[p] EXCEPT
            !.pc = "done",
            !.ret = [success |-> TRUE,
                     message |-> <<"Ticket", proc[p].number, "marked as resolved">>]]

\* the change of invocation p applied to a list
Reapply(p, notifications) ==
    IF proc[p].op = "notify_staff"
    THEN Truncate(Append(notifications, proc[p].notification))
    ELSE IF Matches(notifications, proc[p].number) = {}
    THEN notifications
    ELSE LET i == FirstMatch(notifications, proc[p].number)
         IN [notifications EXCEPT ![i] = proc[p].local[FirstMatch(proc[p].local,
                                                                  proc[p].number)]]

\* the list taken anew at the write: the change is applied to what another
\* invocation has written since the read
write_dump_Reread(p) ==
    /\ proc[p].pc = "opened"
    /\ LET written == {q \in Procs \ {p} :
                          proc[q].pc \in {"saved", "done"} /\ proc[q].opens > 0}
           base == IF written = {} THEN proc[p].before
                   ELSE proc[CHOOSE q \in written : TRUE].local
       IN log_file' = ValidFile(Reapply(p, base))
    /\ SetProc(p, AfterWrite(p))
    /\ UNCHANGED <<clock, sound_enabled, callvars>>

\* json.dump(notifications, f, ...) and the close of the file
write_dump(p) ==
    /\ proc[p].pc = "opened"
    /\ log_file' = ValidFile(proc[p].local)
    /\ SetProc(p, AfterWrite(p))
    /\ UNCHANGED <<clock, sound_enabled, callvars>>

\* the failure met only after the open has emptied the file
write_open_fails_Truncates(p) ==
    /\ proc[p].pc = "loaded"
    /\ log_file' = FaultyFile("malformed")
    /\ SetProc(p, [proc[p] EXCEPT !.pc = "raised", !.error = "OSError",
                                  !.opens = @ + 1])
    /\ UNCHANGED <<clock, sound_enabled, callvars>>

\* open(..., "w") raises an OSError (permission, a directory in its place):
\* the file is not touched and the error leaves the call
write_open_fails(p) ==
    /\ proc[p].pc = "loaded"
    /\ SetProc(p, [proc[p] EXCEPT !.pc = "raised", !.error = "OSError",
                                  !.opens = @ + 1])
    /\ UNCHANGED <<log_file, clock, sound_enabled, callvars>>

\* what a write that fails after the open leaves: the empty or partly
\* written text, a text cut inside a multi-byte character, or the whole text
\* when only the close reports the error
FailedDumps(notifications) ==
    {FaultyFile("malformed"), FaultyFile("undecodable"), ValidFile(notifications)}

\* the dump or the close raises an OSError (disk full, I/O error)
write_dump_fails(p) ==
    /\ proc[p].pc = "opened"
    /\ log_file' \in FailedDumps(proc[p].local)
    /\ SetProc(p, [proc[p] EXCEPT !.pc = "raised", !.error = "OSError"])
    /\ UNCHANGED <<clock, sound_enabled, callvars>>

\* lines 120-140: the alert, the console lines and the return
notify_staff_alert(p) ==
    /\ proc[p].pc = "saved"
    /\ \E platform \in Platforms :
         LET sound == play_notification_sound(sound_enabled, platform, proc[p].priority)
         IN IF sound.raised
            THEN SetProc(p, [proc[p] EXCEPT !.pc = "raised",
                                            !.error = "RuntimeError",
                                            !.alert = sound.outcome,
                                            !.beeps = sound.beeps])
            ELSE SetProc(p, [proc[p] EXCEPT
                    !.pc = "done",
                    !.alert = sound.outcome,
                    !.beeps = sound.beeps,
                    !.ret = [success       |-> TRUE,
                             ticket_number |-> proc[p].notification.ticket_number,
                             message       |-> <<"Staff has been notified. Ticket number:",
                                                 proc[p].notification.ticket_number>>,
                             estimated_response_time |->
                                 EstimatedResponseTime(proc[p].priority)]])
    /\ UNCHANGED <<log_file, clock, sound_enabled, callvars>>

\* a notification filed and left pending by an earlier call
EarlierNotification ==
    NewNotification(0, 0, "Check-in", "Korean", "normal", "Front Desk Kiosk", "")

\* no call under way; the file absent or holding one notification; the alert
\* setting as the configuration line has it or switched off
InitSteps ==
    /\ \E earlier \in {<<>>, <<EarlierNotification>>} :
          /\ log_file = IF earlier = <<>> THEN AbsentFile ELSE ValidFile(earlier)
          /\ filed = earlier
    /\ clock = 0
    /\ call = [op |-> "none"]
    /\ ret = [success |-> TRUE]
    /\ resolveCalled = FALSE
    /\ proc = [p \in Procs |-> IdleProc]
    /\ sound_enabled \in {NOTIFICATION_SOUND_ENABLED, FALSE}

StartNotify(p) ==
    \E reason \in Reasons, guest_language \in Languages, priority \in Priorities,
       location \in Locations, additional_info \in Infos :
        notify_staff_load(p, reason, guest_language, priority, location, additional_info)

StartResolve(p) ==
    \E ticket_number \in TicketNumberArgs : mark_notification_resolved_load(p, ticket_number)

\* two invocations on the same file, no write failing
NextRace ==
    \E p \in Procs :
        \/ StartNotify(p)
        \/ StartResolve(p)
        \/ write_open(p)
        \/ write_dump(p)
        \/ notify_staff_alert(p)

SpecRace == InitSteps /\ [][NextRace]_vars

\* one invocation, its writes free to fail
NextSolo ==
    \/ StartNotify(1)
    \/ StartResolve(1)
    \/ write_open(1)
    \/ write_open_fails(1)
    \/ write_dump(1)
    \/ write_dump_fails(1)
    \/ notify_staff_alert(1)

SpecSolo == InitSteps /\ [][NextSolo]_vars

(* ------------------------------ claims --------------------------------- *)

Store == load_notifications(log_file)

Range(s) == {s[i] : i \in DOMAIN s}

StatusDomain ==
    \A i \in DOMAIN Store : Store[i]["status"] \in {"pending", "resolved"}

NewIsPending ==
    call.op = "notify_staff" => Last(Store)["status"] = "pending"

\* Len(filed) - Len(Store) notifications have been dropped from the front of
\* the log, so notification i of the log is notification i + shift after the step
ResolvedStays ==
    LET old == Store
        new == Store'
        shift == (Len(filed) - Len(old)) - (Len(filed') - Len(new))
    IN \A i \in DOMAIN old :
          (i + shift >= 1 /\ old[i]["status"] = "resolved")
              => (i + shift \in DOMAIN new /\ new[i + shift]["status"] = "resolved")

\* C1: under calls made one at a time, every stored status is pending or
\* resolved, the notification a filing has just stored is pending, and a
\* notification that is resolved in the log is resolved after every step that
\* keeps it in the log.
C1_StatusLifecycle == [](StatusDomain /\ NewIsPending) /\ [][ResolvedStays]_vars

\* a filing pushed a resolved notification one place down by evicting the oldest
C1_Witness ==
    /\ call.op = "notify_staff"
    /\ Len(filed) > RetentionLimit
    /\ \E i \in DOMAIN Store : Store[i]["status"] = "resolved"

\* C2: every notification of the log has the key resolved_at if and only if
\* its status is resolved.
C2_ResolvedAtIffResolved ==
    \A i \in DOMAIN Store :
        ("resolved_at" \in DOMAIN Store[i]) <=> (Store[i]["status"] = "resolved")

C2_Witness ==
    /\ \E i \in DOMAIN Store :
          Store[i]["status"] = "resolved" /\ "resolved_at" \in DOMAIN Store[i]
    /\ \E i \in DOMAIN Store :
          Store[i]["status"] = "pending" /\ "resolved_at" \notin DOMAIN Store[i]

\* the notification as notify_staff built it
AsFiled(n) ==
    [k \in DOMAIN n \ {"resolved_at"} |-> IF k = "status" THEN "pending" ELSE n[k]]

\* C3: from an absent log, after n filings the log holds the last
\* min(n, RetentionLimit) filed notifications in filing order, so it is never
\* longer than RetentionLimit and the oldest are the ones dropped.
C3_Retention ==
    LET n == Len(filed)
        m == Min(n, RetentionLimit)
    IN /\ Len(Store) = m
       /\ Len(Store) <= RetentionLimit
       /\ \A i \in 1..m : AsFiled(Store[i]) = filed[n - m + i]

\* RetentionLimit + 1 filings: the first filed is gone, and it differs from
\* what is kept
C3_Witness ==
    /\ Len(filed) = RetentionLimit + 1
    /\ Len(Store) = RetentionLimit
    /\ \A i \in DOMAIN Store : AsFiled(Store[i]) # filed[1]

\* C4: no two notifications of the log have the same ticket number.
C4_UniqueTicketNumbers ==
    \A i, j \in DOMAIN Store :
        i # j => Store[i]["ticket_number"] # Store[j]["ticket_number"]

\* C5: resolving the ticket number a filing has just returned leaves the
\* notification just filed resolved with resolved_at set, and that number is
\* not among the pending numbers the status query reports.
C5_ResolveJustFiled ==
    [][(/\ call.op = "notify_staff"
        /\ call'.op = "mark_notification_resolved"
        /\ call'.ticket_number = ret.ticket_number)
       => (/\ Last(Store')["status"] = "resolved"
           /\ "resolved_at" \in DOMAIN Last(Store')
           /\ ret.ticket_number \notin Range(StaffStatus(log_file').pending_tickets))]_vars

\* C6: resolving a ticket number that no notification of the log has returns
\* the failure result naming the number and leaves the file as it was.
C6_UnknownNumberNoChange ==
    [][(/\ call'.op = "mark_notification_resolved"
        /\ \A i \in DOMAIN Store : Store[i]["ticket_number"] # call'.ticket_number)
       => (/\ ret' = [success |-> FALSE,
                      message |-> <<"Ticket", call'.ticket_number, "not found">>]
           /\ log_file' = log_file)]_vars

\* a failed resolve, once on a log that holds notifications
C6_Witness ==
    /\ call.op = "mark_notification_resolved"
    /\ ret.success = FALSE
    /\ Len(Store) > 0
    /\ \A i \in DOMAIN Store : Store[i]["ticket_number"] # call.ticket_number

\* C7: from an absent log, after N <= RetentionLimit filings and no resolve
\* call, the status query reports pending_count = N.
C7_PendingCountAfterFilings ==
    (call.op = "get_staff_status" /\ ~resolveCalled /\ Len(filed) <= RetentionLimit)
        => ret.pending_count = Len(filed)

\* two filings in the same second, then the query
C7_Witness ==
    /\ call.op = "get_staff_status"
    /\ ~resolveCalled
    /\ Len(filed) = 2
    /\ filed[1]["ticket_number"] = filed[2]["ticket_number"]
    /\ ret.pending_count = 2

PendingIdx == {i \in DOMAIN Store : Store[i]["status"] = "pending"}

\* the RecentLimit last pending places of the log
RecentIdx == {i \in PendingIdx : Cardinality({j \in PendingIdx : j > i}) < RecentLimit}

\* the k-th of them in log order
RecentAt(k) == CHOOSE i \in RecentIdx : Cardinality({j \in RecentIdx : j <= i}) = k

C9_ResolveOnce ==
    [][(/\ call'.op = "mark_notification_resolved"
        /\ Matches(Store, call'.ticket_number) # {}
        /\ Store[FirstMatch(Store, call'.ticket_number)]["status"] = "resolved")
       => log_file' = log_file]_vars

\* C10: a filing returns "1 minute" when the priority is exactly "urgent" and
\* "2-3 minutes" for every other priority, and stores the priority as given.
C10_ResponseTime ==
    call.op = "notify_staff" =>
        /\ call.priority = "urgent" => ret.estimated_response_time = "1 minute"
        /\ call.priority # "urgent" => ret.estimated_response_time = "2-3 minutes"
        /\ Last(Store)["priority"] = call.priority

\* a priority outside normal, high, urgent
C10_Witness ==
    /\ call.op = "notify_staff"
    /\ call.priority = "URGENT"
    /\ ret.estimated_response_time = "2-3 minutes"
    /\ Last(Store)["priority"] = "URGENT"

Operations == {"notify_staff", "get_staff_status", "mark_notification_resolved"}

\* C12: on a file that is absent, unreadable or not valid serialized ticket
\* data, load_notifications returns the empty list and the call made returns
\* a result instead of raising.
C12_ReadFaultsRecovered ==
    [][(log_file.kind \in FaultKinds \cup {"absent"} /\ call'.op \in Operations)
       => (/\ ~load_raises(log_file)
           /\ load_notifications(log_file) = <<>>
           /\ "raised" \notin DOMAIN ret')]_vars

\* C14: a successful resolve changes only status and resolved_at of the first
\* notification in log order with the ticket number: the length and order of
\* the log, every other notification (later ones with the same number too)
\* and every other key of the matched notification stay as they were.
C14_ResolveFrame ==
    [][(/\ call'.op = "mark_notification_resolved"
        /\ "raised" \notin DOMAIN ret'
        /\ ret'.success)
       => LET old == Store
              new == Store'
              places == {i \in DOMAIN old :
                           old[i]["ticket_number"] = call'.ticket_number}
              first == CHOOSE i \in places : \A j \in places : i <= j
          IN /\ places # {}
             /\ Len(new) = Len(old)
             /\ \A j \in DOMAIN old : j # first => new[j] = old[j]
             /\ DOMAIN new[first] = DOMAIN old[first] \cup {"resolved_at"}
             /\ \A k \in DOMAIN old[first] \ {"status", "resolved_at"} :
                   new[first][k] = old[first][k]
             /\ new[first]["status"] = "resolved"]_vars

\* a resolve that succeeded on a log holding the ticket number twice: the
\* first is resolved, the second still pending
C14_Witness ==
    /\ call.op = "mark_notification_resolved"
    /\ ret.success
    /\ Len(Store) = 2
    /\ Store[1]["ticket_number"] = call.ticket_number
    /\ Store[2]["ticket_number"] = call.ticket_number
    /\ Store[1]["status"] = "resolved"
    /\ Store[2]["status"] = "pending"

\* C17: the status query leaves the file as it is, whatever the file is, and
\* a second query right after a first has the same outcome.
C17_StatusReadOnly ==
    [][call'.op = "get_staff_status"
       => (/\ log_file' = log_file
           /\ call.op = "get_staff_status" => ret' = ret)]_vars

\* the query answered on a file that is not JSON
C17_Witness ==
    /\ call.op = "get_staff_status"
    /\ log_file.kind = "malformed"
    /\ "raised" \notin DOMAIN ret
    /\ ret.pending_count = 0

\* invocation p has returned its success result after writing the file
Succeeded(p) ==
    /\ proc[p].pc = "done"
    /\ proc[p].opens > 0
    /\ proc[p].ret.success

\* C13: two invocations both read the file before either rewrites it and
\* both return success; the file they leave is the list of one of them alone,
\* so the change of the other is lost.
C13_LastWriterWins ==
    (Succeeded(1) /\ Succeeded(2))
        => \E p \in Procs : log_file = ValidFile(proc[p].local)

\* both filings returned success and the notification of one is not in the file
C13_Witness ==
    /\ Succeeded(1) /\ Succeeded(2)
    /\ proc[1].op = "notify_staff" /\ proc[2].op = "notify_staff"
    /\ proc[1].notification # proc[2].notification
    /\ \E p \in Procs : \A i \in DOMAIN Store : Store[i] # proc[p].notification

\* a resolve and a filing both returned success and the notification the
\* resolve marked is pending in the file
C13_LostResolve ==
    /\ Succeeded(1) /\ Succeeded(2)
    /\ proc[1].op = "mark_notification_resolved" /\ proc[2].op = "notify_staff"
    /\ \E i \in DOMAIN Store :
          /\ Store[i]["ticket_number"] = proc[1].number
          /\ Store[i]["status"] = "pending"
    /\ \A i \in DOMAIN Store : Store[i]["status"] = "pending"

\* the notification of the filing is the last of the file
Persisted(c) ==
    /\ LoadsList(log_file)
    /\ Len(Store) > 0
    /\ Last(Store) = c.notification

\* C15: the notification is in the file before the alert is attempted, and
\* whatever the alert does (switched off, no sound support, a failing beep,
\* sound played) the filing returns its success result with the notification
\* in the file.
C15_AlertNeverFails ==
    /\ [](proc[1].alert # "none"
            => (/\ proc[1].pc = "done"
                /\ proc[1].ret.success
                /\ proc[1].ret.ticket_number = proc[1].notification.ticket_number
                /\ Persisted(proc[1])))
    /\ [][(proc[1].alert = "none" /\ proc'[1].alert # "none")
            => Persisted(proc[1])]_vars

\* the filing returned success although the beep failed
C15_Witness ==
    /\ proc[1].op = "notify_staff"
    /\ proc[1].pc = "done"
    /\ proc[1].alert = "runtime_error"
    /\ sound_enabled
    /\ proc[1].ret.success
    /\ Persisted(proc[1])

\* the write of a filing has failed
WriteFailed(c) ==
    c.op = "notify_staff" /\ c.pc = "raised" /\ c.error = "OSError"

\* C16, as first stated: when the write of a filing fails the error leaves
\* the call, no alert is emitted, no success result is returned, the write is
\* tried once, and the file still reads as the list it held before the call.
C16_WriteFailureLeavesStore ==
    WriteFailed(proc[1])
        => (/\ proc[1].alert = "none"
            /\ proc[1].beeps = 0
            /\ "success" \notin DOMAIN proc[1].ret
            /\ proc[1].opens = 1
            /\ LoadsList(log_file)
            /\ load_notifications(log_file) = proc[1].before)

\* C16: when the write of a filing fails the error leaves the call and ends
\* it, no alert is emitted, no success result is returned and the write is
\* tried once; the file is as it was when the open failed, and is otherwise
\* empty, partly written or wholly rewritten.
C16_WriteFailureAborts ==
    [][/\ (WriteFailed(proc'[1]) /\ ~WriteFailed(proc[1]))
          => (/\ proc'[1].alert = "none"
              /\ proc'[1].beeps = 0
              /\ "success" \notin DOMAIN proc'[1].ret
              /\ proc'[1].opens = 1
              /\ proc[1].pc = "loaded" => log_file' = log_file
              /\ proc[1].pc = "opened"
                    => \/ log_file'.kind \in {"malformed", "undecodable"}
                       \/ log_file' = ValidFile(proc[1].local))
       /\ WriteFailed(proc[1]) => proc'[1] = proc[1]]_vars

\* the write failed after the open and the earlier notification is gone
C16_Witness ==
    /\ WriteFailed(proc[1])
    /\ proc[1].before = <<EarlierNotification>>
    /\ log_file.kind = "malformed"
    /\ proc[1].alert = "none"

====
